---- MODULE Spec2Model ----
(***************************************************************************)
(* Model of the investment DAO: the Governor contract of                   *)
(* src/contracts/dao/lib.rs.                                               *)
(*                                                                         *)
(* Each message of the Governor (propose, vote, execute) is one action     *)
(* that runs the whole handler.  Storage is modelled as the source keeps   *)
(* it: proposals is a map from ProposalId to Proposal, proposal_votes is a *)
(* map whose key is the whole Proposal record, votes is a set of           *)
(* (ProposalId, AccountId) pairs.  A handler that returns Err leaves what  *)
(* it wrote before the return in storage, as the method does when it is    *)
(* called directly (the tests do).                                         *)
(*                                                                         *)
(* The host is modelled at its interface: the block timestamp, the native  *)
(* balances with env().transfer, and the weight the contract at            *)
(* governance_token answers, which is drawn from Weights.                  *)
(*                                                                         *)
(* u64 is scaled down to the modulus U64Mod so that the overflow of        *)
(* time + duration * 60, which a caller reaches with one large duration,   *)
(* is within reach.  Arithmetic that overflows either panics (overflow     *)
(* checks on) or wraps (overflow checks off); both outcomes are steps.     *)
(* Tallies and balances stay far below their widths and are not reduced.   *)
(*                                                                         *)
(* The GovernanceToken contract of src/contracts/governance-token/lib.rs   *)
(* has its own specification, SpecToken: transfer_to and weight over the   *)
(* balances, total_supply and circulating_supply, with Balance arithmetic  *)
(* scaled down to BalanceMod.  The Governor specifications leave the token *)
(* storage as constructed, and SpecToken leaves the Governor's.            *)
(***************************************************************************)
EXTENDS Integers, Sequences, FiniteSets, TLC

(* ------------------------------ bounds -------------------------------- *)

\* number of proposals the model lets propose create
MaxProposals == 2

\* native balance the contract is constructed with (tests use 1000)
InitBalance == 3

\* stand-in for 2^64, the modulus of u64 arithmetic
U64Mod == 64

\* number of calls that change storage a behaviour may hold
MaxCalls == 6

\* depth of nested (re-entrant) calls the re-entrant specification allows
MaxDepth == 2

\* quorum the tests construct the Governor with
QuorumValue == 50

\* largest initial_supply a GovernanceToken is constructed with
MaxSupply == 3

\* stand-in for 2^128, the modulus of Balance arithmetic
BalanceMod == 1024

\* stand-in for 2^64 in the token, the width weight casts its quotient to
WeightMod == 256

(* --------------------------- input domains ---------------------------- *)

\* the contract's own account (ink::env::test::callee)
Dao == "dao"

\* accounts that call vote
Voters == {"alice", "bob"}

\* destinations a proposal may name; the contract's own account is one
Recipients == {"django", Dao}

\* amounts offered to propose: zero, a payable one, one above the balance
Amounts == {0, 2, InitBalance + 1}

\* durations (minutes) offered to propose; time + 1 * 60 stays below U64Mod
\* at time 0 and overflows from time 60 on
Durations == {0, 1}

\* block timestamps the chain passes through
TimePoints == {0, 60, 61}

\* weights the oracle call may return
Weights == {0, 40}

\* amounts offered to transfer_to: small ones and ones next to the modulus
TokenAmounts == {0, 1, 2, BalanceMod - 2, BalanceMod - 1}

VoteType == {"Against", "For"}

\* the errors a message of the Governor returns
DaoError == {"AmountShouldNotBeZero", "AmountShouldNotExceedTheBalance",
             "DurationError", "QuorumNotReached", "ProposalNotAccepted",
             "ProposalNotFound", "ProposalAlreadyExecuted", "VotePeriodEnded",
             "AlreadyVoted", "TransferFailed"}

(* ------------------------------- state -------------------------------- *)

VARIABLES
    proposals,          \* Mapping<ProposalId, Proposal>
    proposal_votes,     \* Mapping<Proposal, ProposalVote>
    votes,              \* Mapping<(ProposalId, AccountId), ()>
    next_proposal_id,   \* ProposalId
    quorum,             \* u64
    governance_token,   \* AccountId
    env_balance,        \* native balances kept by the host, per account
    now,                \* block timestamp
    stack,              \* handlers suspended at an external call
    last,               \* the call that completed last, with its result
    transfers,          \* log of the env().transfer calls execute made
    reported,           \* per ProposalId, the weights the oracle answered
                        \* to the votes on it, summed by side
    balances,           \* GovernanceToken: Mapping<AccountId, Balance>
    total_supply,       \* GovernanceToken: Balance
    circulating_supply  \* GovernanceToken: Balance

vars == <<proposals, proposal_votes, votes, next_proposal_id, quorum,
          governance_token, env_balance, now, stack, last, transfers,
          reported, balances, total_supply, circulating_supply>>

\* the storage of the GovernanceToken contract
token == <<balances, total_supply, circulating_supply>>

storage == <<proposals, proposal_votes, votes, next_proposal_id, quorum,
             governance_token>>

(* ------------------------------ helpers ------------------------------- *)

\* Mapping::insert: store value under key, replacing what was there
Insert(map, key, value) ==
    [k \in DOMAIN map \cup {key} |-> IF k = key THEN value ELSE map[k]]

EmptyMap == [k \in {} |-> "None"]

\* a tally with the weight added on the side of the vote
Added(tally, vote_type, weight) ==
    IF vote_type = "Against"
    THEN [tally EXCEPT !.against_vote = @ + weight]
    ELSE [tally EXCEPT !.for_votes = @ + weight]

\* reported after the oracle answered weight to a vote on the proposal
Report(proposal_id, vote_type, weight) ==
    [reported EXCEPT ![proposal_id] = Added(@, vote_type, weight)]

\* GovernanceToken::new: no balances, nothing in circulation
token_new(initial_supply) ==
    /\ balances = [account \in Voters |-> 0]
    /\ total_supply = initial_supply
    /\ circulating_supply = 0

\* last before any call: the message, the ProposalId it named, its result
NoCall == [op |-> "none", id |-> 0, result |-> "none"]

\* ProposalIds a caller may pass; MaxProposals + 1 is never allocated
Ids == 1 .. (MaxProposals + 1)

(* ------------------------------ Governor ------------------------------ *)

\* Governor::new, in the environment the tests construct
Init ==
    /\ proposals = EmptyMap
    /\ proposal_votes = EmptyMap
    /\ votes = {}
    /\ next_proposal_id = 0
    /\ quorum = QuorumValue
    /\ governance_token = "token"
    /\ env_balance = [a \in Recipients |-> IF a = Dao THEN InitBalance ELSE 0]
    /\ now = 0
    /\ stack = <<>>
    /\ last = NoCall
    /\ transfers = <<>>
    /\ reported = [id \in Ids |-> [against_vote |-> 0, for_votes |-> 0]]
    /\ token_new(MaxSupply)

\* what a handler that returns early leaves behind: nothing but its result
Returned(call) ==
    /\ last' = call
    /\ UNCHANGED <<storage, env_balance, now, stack, transfers, reported,
                   token>>

\* a panic or a failed cross-contract call traps: the host discards the
\* transaction, the caller sees no DaoError
Trapped(call) == Returned([call EXCEPT !.result = "Trap"])

\* the calls so far that changed storage: proposals made, ballots recorded,
\* proposals marked executed
Calls ==
    next_proposal_id + Cardinality(votes)
    + Cardinality({id \in DOMAIN proposals : proposals[id].executed})

(* ------------------------------ propose ------------------------------- *)

\* propose_check with the duration looked at first
propose_check_duration_first(amount, duration) ==
    IF duration = 0 THEN "DurationError"
    ELSE IF amount = 0 THEN "AmountShouldNotBeZero"
    ELSE IF amount > env_balance[Dao] THEN "AmountShouldNotExceedTheBalance"
    ELSE "Ok"

\* the three input checks of propose, in the order of the source
propose_check(amount, duration) ==
    IF amount = 0 THEN "AmountShouldNotBeZero"
    ELSE IF amount > env_balance[Dao] THEN "AmountShouldNotExceedTheBalance"
    ELSE IF duration = 0 THEN "DurationError"
    ELSE "Ok"

\* time + duration * 60 leaves the u64 range
vote_end_overflows(time, duration) == time + duration * 60 >= U64Mod

\* time + duration * 60 as u64 arithmetic without overflow checks computes it
vote_end_of(time, duration) == (time + duration * 60) % U64Mod

\* the Proposal record propose builds
new_proposal(to, amount, time, duration) ==
    [to |-> to, amount |-> amount, vote_start |-> time,
     vote_end |-> vote_end_of(time, duration), executed |-> FALSE]

\* propose_store with the insert ahead of the increment
propose_store_insert_first(to, amount, duration) ==
    /\ proposals' = Insert(proposals, next_proposal_id,
                           new_proposal(to, amount, now, duration))
    /\ next_proposal_id' = next_proposal_id + 1
    /\ UNCHANGED <<proposal_votes, votes, quorum, governance_token>>

\* the two storage writes of a propose that passed its checks
propose_store(to, amount, duration) ==
    /\ next_proposal_id' = next_proposal_id + 1
    /\ proposals' = Insert(proposals, next_proposal_id + 1,
                           new_proposal(to, amount, now, duration))
    /\ UNCHANGED <<proposal_votes, votes, quorum, governance_token>>

propose(to, amount, duration) ==
    LET call == [NoCall EXCEPT !.op = "propose"]
        r == propose_check(amount, duration)
    IN  /\ stack = <<>>
        /\ r = "Ok" => Calls < MaxCalls
        /\ next_proposal_id < MaxProposals
        /\ IF r # "Ok" THEN Returned([call EXCEPT !.result = r])
           ELSE \/ /\ vote_end_overflows(now, duration)
                   /\ Trapped(call)
                \/ /\ propose_store(to, amount, duration)
                   /\ last' = [call EXCEPT !.result = "Ok"]
                   /\ UNCHANGED <<env_balance, now, stack, transfers,
                                  reported, token>>

(* -------------------------------- vote -------------------------------- *)

\* vote_check without the look-up of the ballot record
vote_check_no_ballot(proposal_id, caller) ==
    IF proposal_id \notin DOMAIN proposals THEN "ProposalNotFound"
    ELSE IF proposals[proposal_id].executed THEN "ProposalAlreadyExecuted"
    ELSE IF now > proposals[proposal_id].vote_end THEN "VotePeriodEnded"
    ELSE "Ok"

\* vote_check with the window closed at vote_end itself
vote_check_end_exclusive(proposal_id, caller) ==
    IF proposal_id \notin DOMAIN proposals THEN "ProposalNotFound"
    ELSE IF proposals[proposal_id].executed THEN "ProposalAlreadyExecuted"
    ELSE IF now >= proposals[proposal_id].vote_end THEN "VotePeriodEnded"
    ELSE IF <<proposal_id, caller>> \in votes THEN "AlreadyVoted"
    ELSE "Ok"

\* vote_check without the comparison of the time with vote_end
vote_check_no_deadline(proposal_id, caller) ==
    IF proposal_id \notin DOMAIN proposals THEN "ProposalNotFound"
    ELSE IF proposals[proposal_id].executed THEN "ProposalAlreadyExecuted"
    ELSE IF <<proposal_id, caller>> \in votes THEN "AlreadyVoted"
    ELSE "Ok"

\* the checks of vote that precede the ballot record
vote_check(proposal_id, caller) ==
    IF proposal_id \notin DOMAIN proposals THEN "ProposalNotFound"
    ELSE IF proposals[proposal_id].executed THEN "ProposalAlreadyExecuted"
    ELSE IF now > proposals[proposal_id].vote_end THEN "VotePeriodEnded"
    ELSE IF <<proposal_id, caller>> \in votes THEN "AlreadyVoted"
    ELSE "Ok"

\* the tally vote writes: the stored one plus weight, or a fresh one
new_proposal_vote(proposal, vote, weight) ==
    IF proposal \in DOMAIN proposal_votes
    THEN IF vote = "Against"
         THEN [against_vote |-> proposal_votes[proposal].against_vote + weight,
               for_votes |-> proposal_votes[proposal].for_votes]
         ELSE [against_vote |-> proposal_votes[proposal].against_vote,
               for_votes |-> proposal_votes[proposal].for_votes + weight]
    ELSE IF vote = "Against"
         THEN [against_vote |-> weight, for_votes |-> 0]
         ELSE [against_vote |-> 0, for_votes |-> weight]

\* the tally is stored under the Proposal record vote read at its start
vote_tally(proposal, vote, weight) ==
    proposal_votes' = Insert(proposal_votes, proposal,
                             new_proposal_vote(proposal, vote, weight))

\* vote with the ballot recorded ahead of the check of the voting period
vote_ballot_first(caller, proposal_id, vote_type) ==
    LET call == [NoCall EXCEPT !.op = "vote", !.id = proposal_id]
        r == vote_check(proposal_id, caller)
    IN  /\ stack = <<>>
        /\ r = "Ok" => Calls < MaxCalls
        /\ IF r = "VotePeriodEnded"
           THEN /\ votes' = votes \cup {<<proposal_id, caller>>}
                /\ last' = [call EXCEPT !.result = r]
                /\ UNCHANGED <<proposals, proposal_votes, next_proposal_id,
                               quorum, governance_token, env_balance, now,
                               stack, transfers, reported, token>>
           ELSE IF r # "Ok" THEN Returned([call EXCEPT !.result = r])
           ELSE \/ Trapped(call)
                \/ \E weight \in Weights :
                     /\ votes' = votes \cup {<<proposal_id, caller>>}
                     /\ vote_tally(proposals[proposal_id], vote_type, weight)
                     /\ reported' = Report(proposal_id, vote_type, weight)
                     /\ last' = [call EXCEPT !.result = "Ok"]
                     /\ UNCHANGED <<proposals, next_proposal_id, quorum,
                                    governance_token, env_balance, now, stack,
                                    transfers, token>>

vote(caller, proposal_id, vote_type) ==
    LET call == [NoCall EXCEPT !.op = "vote", !.id = proposal_id]
        r == vote_check(proposal_id, caller)
    IN  /\ stack = <<>>
        /\ r = "Ok" => Calls < MaxCalls
        /\ IF r # "Ok" THEN Returned([call EXCEPT !.result = r])
           ELSE \/ Trapped(call)
                \/ \E weight \in Weights :
                     /\ votes' = votes \cup {<<proposal_id, caller>>}
                     /\ vote_tally(proposals[proposal_id], vote_type, weight)
                     /\ reported' = Report(proposal_id, vote_type, weight)
                     /\ last' = [call EXCEPT !.result = "Ok"]
                     /\ UNCHANGED <<proposals, next_proposal_id, quorum,
                                    governance_token, env_balance, now, stack,
                                    transfers, token>>

(* ------------------------------ execute ------------------------------- *)

\* execute_check without the comparison of the tally with quorum
execute_check_no_quorum(proposal_id) ==
    IF proposal_id \notin DOMAIN proposals THEN "ProposalNotFound"
    ELSE IF proposals[proposal_id].executed THEN "ProposalAlreadyExecuted"
    ELSE IF proposals[proposal_id] \notin DOMAIN proposal_votes
         THEN "QuorumNotReached"
    ELSE LET proposal_votes_ == proposal_votes[proposals[proposal_id]]
         IN  IF proposal_votes_.for_votes < proposal_votes_.against_vote
             THEN "ProposalNotAccepted"
             ELSE "Ok"

\* execute_check with a tie counted as a rejection
execute_check_tie_rejected(proposal_id) ==
    IF proposal_id \notin DOMAIN proposals THEN "ProposalNotFound"
    ELSE IF proposals[proposal_id].executed THEN "ProposalAlreadyExecuted"
    ELSE IF proposals[proposal_id] \notin DOMAIN proposal_votes
         THEN "QuorumNotReached"
    ELSE LET proposal_votes_ == proposal_votes[proposals[proposal_id]]
         IN  IF quorum > proposal_votes_.for_votes + proposal_votes_.against_vote
             THEN "QuorumNotReached"
             ELSE IF proposal_votes_.for_votes <= proposal_votes_.against_vote
             THEN "ProposalNotAccepted"
             ELSE "Ok"

\* execute_check with execution refused while the voting window is open
execute_check_after_deadline(proposal_id) ==
    IF proposal_id \notin DOMAIN proposals THEN "ProposalNotFound"
    ELSE IF proposals[proposal_id].executed THEN "ProposalAlreadyExecuted"
    ELSE IF now <= proposals[proposal_id].vote_end THEN "QuorumNotReached"
    ELSE IF proposals[proposal_id] \notin DOMAIN proposal_votes
         THEN "QuorumNotReached"
    ELSE LET proposal_votes_ == proposal_votes[proposals[proposal_id]]
         IN  IF quorum > proposal_votes_.for_votes + proposal_votes_.against_vote
             THEN "QuorumNotReached"
             ELSE IF proposal_votes_.for_votes < proposal_votes_.against_vote
             THEN "ProposalNotAccepted"
             ELSE "Ok"

\* the checks of execute that precede the executed flag
execute_check(proposal_id) ==
    IF proposal_id \notin DOMAIN proposals THEN "ProposalNotFound"
    ELSE IF proposals[proposal_id].executed THEN "ProposalAlreadyExecuted"
    ELSE IF proposals[proposal_id] \notin DOMAIN proposal_votes
         THEN "QuorumNotReached"
    ELSE LET proposal_votes_ == proposal_votes[proposals[proposal_id]]
         IN  IF quorum > proposal_votes_.for_votes + proposal_votes_.against_vote
             THEN "QuorumNotReached"
             ELSE IF proposal_votes_.for_votes < proposal_votes_.against_vote
             THEN "ProposalNotAccepted"
             ELSE "Ok"

\* mark_executed with the write of the flag left out
mark_executed_lost(proposal_id) == proposals' = proposals

\* mark_executed with the amount of the stored record cleared
mark_executed_amount_cleared(proposal_id) ==
    proposals' = Insert(proposals, proposal_id,
                        [proposals[proposal_id] EXCEPT !.executed = TRUE,
                                                       !.amount = 0])

\* proposal.executed = true; self.proposals.insert(proposal_id, &proposal)
mark_executed(proposal_id) ==
    proposals' = Insert(proposals, proposal_id,
                        [proposals[proposal_id] EXCEPT !.executed = TRUE])

\* env().transfer succeeds when the contract holds the amount
transfer_succeeds(amount) == amount <= env_balance[Dao]

\* transferred with the destination credited and the contract not debited
transferred_no_debit(to, amount) == [env_balance EXCEPT ![to] = @ + amount]

\* the balances after env().transfer(to, amount) succeeded
transferred(to, amount) ==
    LET debited == [env_balance EXCEPT ![Dao] = @ - amount]
    IN  [debited EXCEPT ![to] = @ + amount]

\* env().transfer(proposal.to, proposal.amount) and the result of execute
execute_transfer(call, proposal) ==
    /\ transfers' = Append(transfers,
                            [id |-> call.id, to |-> proposal.to,
                             amount |-> proposal.amount,
                             ok |-> transfer_succeeds(proposal.amount)])
    /\ IF transfer_succeeds(proposal.amount)
       THEN /\ env_balance' = transferred(proposal.to, proposal.amount)
            /\ last' = [call EXCEPT !.result = "Ok"]
       ELSE /\ UNCHANGED env_balance
            /\ last' = [call EXCEPT !.result = "TransferFailed"]

\* execute that takes the executed flag back when the transfer fails
execute_flag_reverted(proposal_id) ==
    LET call == [NoCall EXCEPT !.op = "execute", !.id = proposal_id]
        r == execute_check(proposal_id)
    IN  /\ stack = <<>>
        /\ r = "Ok" => Calls < MaxCalls
        /\ IF r # "Ok" THEN Returned([call EXCEPT !.result = r])
           ELSE /\ IF transfer_succeeds(proposals[proposal_id].amount)
                   THEN mark_executed(proposal_id)
                   ELSE proposals' = proposals
                /\ execute_transfer(call, proposals[proposal_id])
                /\ UNCHANGED <<proposal_votes, votes, next_proposal_id, quorum,
                               governance_token, now, stack, reported, token>>

execute(proposal_id) ==
    LET call == [NoCall EXCEPT !.op = "execute", !.id = proposal_id]
        r == execute_check(proposal_id)
    IN  /\ stack = <<>>
        /\ r = "Ok" => Calls < MaxCalls
        /\ IF r # "Ok" THEN Returned([call EXCEPT !.result = r])
           ELSE /\ mark_executed(proposal_id)
                /\ execute_transfer(call, proposals[proposal_id])
                /\ UNCHANGED <<proposal_votes, votes, next_proposal_id, quorum,
                               governance_token, now, stack, reported, token>>

(* --------------------------- GovernanceToken --------------------------- *)
(* Balance arithmetic is scaled down to the modulus BalanceMod; as in the  *)
(* Governor, an operation that overflows either panics or wraps.           *)

\* GovernanceToken::new for every initial_supply above zero
InitToken ==
    /\ proposals = EmptyMap
    /\ proposal_votes = EmptyMap
    /\ votes = {}
    /\ next_proposal_id = 0
    /\ quorum = QuorumValue
    /\ governance_token = "token"
    /\ env_balance = [a \in Recipients |-> IF a = Dao THEN InitBalance ELSE 0]
    /\ now = 0
    /\ stack = <<>>
    /\ last = NoCall
    /\ transfers = <<>>
    /\ reported = [id \in Ids |-> [against_vote |-> 0, for_votes |-> 0]]
    /\ \E initial_supply \in 1 .. MaxSupply : token_new(initial_supply)

\* self.balances.get(account).unwrap_or_default()
balance_of(account) == balances[account]

\* amount + self.circulating_supply < self.total_supply, as wrapping
\* arithmetic computes it
transfer_to_guard(amount) ==
    (amount + circulating_supply) % BalanceMod < total_supply

\* one of the additions of transfer_to leaves the Balance range
transfer_to_overflows(recipient, amount) ==
    \/ amount + circulating_supply >= BalanceMod
    \/ /\ transfer_to_guard(amount)
       /\ balance_of(recipient) + amount >= BalanceMod

transfer_to(recipient, amount) ==
    LET call == [NoCall EXCEPT !.op = "transfer_to"]
    IN  /\ stack = <<>>
        /\ \/ /\ transfer_to_overflows(recipient, amount)
              /\ Trapped(call)
           \/ /\ IF transfer_to_guard(amount)
                 THEN /\ balances' =
                           [balances EXCEPT ![recipient] =
                              (balance_of(recipient) + amount) % BalanceMod]
                      /\ circulating_supply' =
                           (circulating_supply + amount) % BalanceMod
                      /\ UNCHANGED total_supply
                 ELSE UNCHANGED token
              /\ last' = [call EXCEPT !.result = "Ok"]
              /\ UNCHANGED <<storage, env_balance, now, stack, transfers,
                             reported>>

\* balance * 100 leaves the Balance range
weight_overflows(account) == balance_of(account) * 100 >= BalanceMod

\* (balance * 100 / self.total_supply) as u64, as wrapping arithmetic
\* computes it
weight_value(account) ==
    (((balance_of(account) * 100) % BalanceMod) \div total_supply) % WeightMod

\* the message weight: it answers weight_value(account), which the caller
\* holds and storage does not, or panics on overflow
token_weight(account) ==
    LET call == [NoCall EXCEPT !.op = "weight"]
    IN  /\ stack = <<>>
        /\ \/ /\ weight_overflows(account)
              /\ Trapped(call)
           \/ Returned([call EXCEPT !.result = "Ok"])

NextToken ==
    \/ \E recipient \in Voters, amount \in TokenAmounts :
         transfer_to(recipient, amount)
    \/ \E account \in Voters : token_weight(account)

SpecToken == InitToken /\ [][NextToken]_vars

(* ------------------------------ the host ------------------------------ *)

\* the chain produces a later block
Tick ==
    /\ stack = <<>>
    /\ \E t \in TimePoints : t > now /\ now' = t
    /\ last' = [NoCall EXCEPT !.op = "tick"]
    /\ UNCHANGED <<storage, env_balance, stack, transfers, reported, token>>

(* -------------------- re-entry at the external calls ------------------- *)
(* On a host that lets the callee call back, a handler is suspended at its *)
(* external call (the weight call of vote, the transfer of execute) while  *)
(* vote and execute run again.  Mapping writes reach storage at once, so   *)
(* the nested call sees them; the suspended handler keeps the Proposal it  *)
(* read as a local.  The re-entrant specification covers the calls of one  *)
(* block: the timestamp does not advance in it.                            *)

\* a handler suspended at its external call, with its locals
Frame(op, proposal_id, caller, vote_type, proposal) ==
    [op |-> op, id |-> proposal_id, caller |-> caller, vote |-> vote_type,
     proposal |-> proposal]

\* vote_enter with the ballot not recorded ahead of the weight call
vote_enter_ballot_late(caller, proposal_id, vote_type) ==
    LET call == [NoCall EXCEPT !.op = "vote", !.id = proposal_id]
        r == vote_check(proposal_id, caller)
    IN  /\ Len(stack) < MaxDepth
        /\ r = "Ok" => Calls < MaxCalls
        /\ IF r # "Ok" THEN Returned([call EXCEPT !.result = r])
           ELSE /\ stack' = Append(stack, Frame("vote", proposal_id, caller,
                                   vote_type, proposals[proposal_id]))
                /\ UNCHANGED <<proposals, proposal_votes, votes,
                               next_proposal_id, quorum, governance_token,
                               env_balance, now, last, transfers, reported,
                               token>>

\* vote up to its call of the weight oracle
vote_enter(caller, proposal_id, vote_type) ==
    LET call == [NoCall EXCEPT !.op = "vote", !.id = proposal_id]
        r == vote_check(proposal_id, caller)
    IN  /\ Len(stack) < MaxDepth
        /\ r = "Ok" => Calls < MaxCalls
        /\ IF r # "Ok" THEN Returned([call EXCEPT !.result = r])
           ELSE /\ votes' = votes \cup {<<proposal_id, caller>>}
                /\ stack' = Append(stack, Frame("vote", proposal_id, caller,
                                   vote_type, proposals[proposal_id]))
                /\ UNCHANGED <<proposals, proposal_votes, next_proposal_id,
                               quorum, governance_token, env_balance, now,
                               last, transfers, reported, token>>

\* vote from the return of the weight oracle on
vote_return ==
    /\ stack # <<>>
    /\ LET frame == stack[Len(stack)]
       IN  /\ frame.op = "vote"
           /\ \E weight \in Weights :
                /\ vote_tally(frame.proposal, frame.vote, weight)
                /\ reported' = Report(frame.id, frame.vote, weight)
           /\ last' = [op |-> "vote", id |-> frame.id, result |-> "Ok"]
    /\ stack' = SubSeq(stack, 1, Len(stack) - 1)
    /\ UNCHANGED <<proposals, votes, next_proposal_id, quorum,
                   governance_token, env_balance, now, transfers, token>>

\* execute up to its call of env().transfer
execute_enter(proposal_id) ==
    LET call == [NoCall EXCEPT !.op = "execute", !.id = proposal_id]
        r == execute_check(proposal_id)
    IN  /\ Len(stack) < MaxDepth
        /\ r = "Ok" => Calls < MaxCalls
        /\ IF r # "Ok" THEN Returned([call EXCEPT !.result = r])
           ELSE /\ mark_executed(proposal_id)
                /\ stack' = Append(stack, Frame("execute", proposal_id, Dao,
                                   "For", proposals[proposal_id]))
                /\ UNCHANGED <<proposal_votes, votes, next_proposal_id, quorum,
                               governance_token, env_balance, now, last,
                               transfers, reported, token>>

\* execute from env().transfer on
execute_return ==
    /\ stack # <<>>
    /\ LET frame == stack[Len(stack)]
       IN  /\ frame.op = "execute"
           /\ execute_transfer([NoCall EXCEPT !.op = "execute",
                                              !.id = frame.id], frame.proposal)
    /\ stack' = SubSeq(stack, 1, Len(stack) - 1)
    /\ UNCHANGED <<storage, now, reported, token>>

Next ==
    \/ \E to \in Recipients, amount \in Amounts, duration \in Durations :
         propose(to, amount, duration)
    \/ \E caller \in Voters, proposal_id \in Ids, vote_type \in VoteType :
         vote(caller, proposal_id, vote_type)
    \/ \E proposal_id \in Ids : execute(proposal_id)
    \/ Tick

Spec == Init /\ [][Next]_vars

NextReentrant ==
    \/ \E to \in Recipients, amount \in Amounts, duration \in Durations :
         propose(to, amount, duration)
    \/ \E caller \in Voters, proposal_id \in Ids, vote_type \in VoteType :
         vote_enter(caller, proposal_id, vote_type)
    \/ vote_return
    \/ \E proposal_id \in Ids : execute_enter(proposal_id)
    \/ execute_return

SpecReentrant == Init /\ [][NextReentrant]_vars

(* ------------------------------ claims -------------------------------- *)

\* how often env().transfer was invoked for the proposal
TransferCount(proposal_id) ==
    Cardinality({i \in DOMAIN transfers : transfers[i].id = proposal_id})

\* C1: env().transfer is invoked at most once per ProposalId, and every
\* execute of a proposal whose executed flag is set returns
\* ProposalAlreadyExecuted and leaves the balances and the transfer log as
\* they were, also when it is entered while an execute of the same proposal
\* is suspended at its transfer.
C1_ExactlyOnce ==
    [][/\ transfers' # transfers
          => /\ Len(transfers') = Len(transfers) + 1
             /\ SubSeq(transfers', 1, Len(transfers)) = transfers
             /\ \A i \in DOMAIN transfers :
                  transfers[i].id # transfers'[Len(transfers')].id
       /\ \A id \in Ids \cap {last'.id} :
            (/\ id \in DOMAIN proposals
             /\ proposals[id].executed
             /\ last'.op = "execute" /\ last'.id = id
             /\ execute_enter(id))
            => /\ last' = [op |-> "execute", id |-> id,
                           result |-> "ProposalAlreadyExecuted"]
               /\ env_balance' = env_balance
               /\ transfers' = transfers]_vars

\* C1 witness: an execute of a proposal returned ProposalAlreadyExecuted
\* while the first execute of that proposal is still suspended at its transfer
C1_Witness ==
    /\ stack # <<>>
    /\ stack[1].op = "execute"
    /\ last = [op |-> "execute", id |-> stack[1].id,
               result |-> "ProposalAlreadyExecuted"]
    /\ TransferCount(stack[1].id) = 0

\* what vote returns for a proposal that exists, when the caller has a ballot
BallotError(proposal_id) ==
    IF proposals[proposal_id].executed THEN "ProposalAlreadyExecuted"
    ELSE IF now > proposals[proposal_id].vote_end THEN "VotePeriodEnded"
    ELSE "AlreadyVoted"

\* C2 as stated: once a vote of account a on proposal p has succeeded, every
\* later vote of a on p returns AlreadyVoted and changes no tally.
C2_Original ==
    [][last'.op = "vote" =>
       \A a \in Voters, p \in Ids \cap {last'.id}, v \in VoteType :
         (<<p, a>> \in votes /\ vote(a, p, v))
         => (last'.result = "AlreadyVoted" /\ proposal_votes' = proposal_votes)]_vars

\* C2 amended: once a vote of account a on proposal p has succeeded, every
\* later vote of a on p returns an error and changes no tally and no ballot:
\* ProposalAlreadyExecuted when p is executed, else VotePeriodEnded when the
\* time is past vote_end, else AlreadyVoted.
C2_OneVote ==
    [][last'.op = "vote" =>
       \A a \in Voters, p \in Ids \cap {last'.id}, v \in VoteType :
         (<<p, a>> \in votes /\ vote(a, p, v))
         => /\ last' = [op |-> "vote", id |-> p, result |-> BallotError(p)]
            /\ proposal_votes' = proposal_votes
            /\ votes' = votes]_vars

\* C2 witness: a vote was refused with AlreadyVoted on a proposal that
\* carries a tally and a ballot
C2_Witness ==
    /\ last.op = "vote"
    /\ last.result = "AlreadyVoted"
    /\ \E a \in Voters : <<last.id, a>> \in votes
    /\ proposals[last.id] \in DOMAIN proposal_votes

\* C3 as stated: a vote on an existing proposal at a time greater than its
\* vote_end returns VotePeriodEnded and changes no tally.
C3_Original ==
    [][last'.op = "vote" =>
       \A a \in Voters, p \in Ids \cap {last'.id}, v \in VoteType :
         (/\ p \in DOMAIN proposals
          /\ now > proposals[p].vote_end
          /\ vote(a, p, v))
         => (last'.result = "VotePeriodEnded" /\ proposal_votes' = proposal_votes)]_vars

\* C3 amended: a vote on an existing proposal at a time greater than its
\* vote_end changes no tally and returns VotePeriodEnded when the proposal
\* is not executed, ProposalAlreadyExecuted when it is; a vote on an
\* unexecuted proposal at a time equal to vote_end is not refused with
\* VotePeriodEnded.
C3_VotePeriodEnded ==
    [][last'.op = "vote" =>
       \A a \in Voters, p \in Ids \cap {last'.id}, v \in VoteType :
         (/\ p \in DOMAIN proposals
          /\ vote(a, p, v))
         => /\ now > proposals[p].vote_end
               => /\ last'.result = IF proposals[p].executed
                                    THEN "ProposalAlreadyExecuted"
                                    ELSE "VotePeriodEnded"
                  /\ proposal_votes' = proposal_votes
            /\ now <= proposals[p].vote_end
               => last'.result # "VotePeriodEnded"]_vars

\* C3 witness: a vote on an unexecuted proposal was refused with
\* VotePeriodEnded one time unit after its vote_end
C3_Witness ==
    /\ last.op = "vote"
    /\ last.result = "VotePeriodEnded"
    /\ ~proposals[last.id].executed
    /\ now = proposals[last.id].vote_end + 1

\* the proposal has a tally under its own record
HasTally(proposal_id) == proposals[proposal_id] \in DOMAIN proposal_votes

\* the tally stored under the proposal's record
TallyOf(proposal_id) == proposal_votes[proposals[proposal_id]]

\* for_votes + against_vote of a tally
TallySum(tally) == tally.for_votes + tally.against_vote

\* C4: execute of an existing, unexecuted proposal returns QuorumNotReached
\* when the proposal has no tally or the for and against votes of its tally
\* add up to less than quorum; executed stays false and no transfer is made.
C4_QuorumNotReached ==
    [][\A id \in Ids \cap {last'.id} :
         (/\ id \in DOMAIN proposals
          /\ ~proposals[id].executed
          /\ (~HasTally(id) \/ TallySum(TallyOf(id)) < quorum)
          /\ last'.op = "execute" /\ last'.id = id
          /\ execute(id))
         => /\ last' = [op |-> "execute", id |-> id,
                        result |-> "QuorumNotReached"]
            /\ proposals' = proposals
            /\ transfers' = transfers
            /\ env_balance' = env_balance]_vars

\* C4 witness: execute returned QuorumNotReached for a proposal whose tally
\* exists and is below quorum
C4_Witness ==
    /\ last.op = "execute"
    /\ last.result = "QuorumNotReached"
    /\ HasTally(last.id)
    /\ TallySum(TallyOf(last.id)) > 0
    /\ TallySum(TallyOf(last.id)) < quorum

\* C5: execute of an existing, unexecuted proposal whose tally meets quorum
\* returns ProposalNotAccepted, with executed left false and no transfer,
\* when for_votes < against_vote; otherwise (ties included) it sets executed
\* and calls env().transfer(to, amount) once, whether the transfer succeeds
\* (Ok) or not (TransferFailed).
C5_Majority ==
    [][\A id \in Ids \cap {last'.id} :
         (/\ id \in DOMAIN proposals
          /\ ~proposals[id].executed
          /\ HasTally(id)
          /\ TallySum(TallyOf(id)) >= quorum
          /\ last'.op = "execute" /\ last'.id = id
          /\ execute(id))
         => IF TallyOf(id).for_votes < TallyOf(id).against_vote
            THEN /\ last' = [op |-> "execute", id |-> id,
                             result |-> "ProposalNotAccepted"]
                 /\ proposals' = proposals
                 /\ transfers' = transfers
                 /\ env_balance' = env_balance
            ELSE /\ proposals'[id] = [proposals[id] EXCEPT !.executed = TRUE]
                 /\ last'.op = "execute"
                 /\ last'.result \in {"Ok", "TransferFailed"}
                 /\ Len(transfers') = Len(transfers) + 1
                 /\ LET t == transfers'[Len(transfers')]
                    IN  /\ t.id = id
                        /\ t.to = proposals[id].to
                        /\ t.amount = proposals[id].amount
                        /\ t.ok = (last'.result = "Ok")]_vars

\* C5 witness: a proposal whose for and against votes tie at or above quorum
\* was executed
C5_Witness ==
    /\ last.op = "execute"
    /\ last.result = "Ok"
    /\ proposals[last.id].executed
    /\ LET key == [proposals[last.id] EXCEPT !.executed = FALSE]
       IN  /\ key \in DOMAIN proposal_votes
           /\ proposal_votes[key].for_votes = proposal_votes[key].against_vote
           /\ TallySum(proposal_votes[key]) >= quorum

\* C6: propose returns AmountShouldNotBeZero for amount 0 whatever the
\* duration, else AmountShouldNotExceedTheBalance for an amount above the
\* contract's balance whatever the duration, else DurationError for duration
\* 0; in each case no proposal is stored and next_proposal_id stays.
C6_ProposeChecks ==
    [][\A to \in Recipients, amount \in Amounts, duration \in Durations :
         (/\ (amount = 0 \/ amount > env_balance[Dao] \/ duration = 0)
          /\ last'.op = "propose"
          /\ propose(to, amount, duration))
         => /\ last'.op = "propose"
            /\ last'.result =
                 IF amount = 0 THEN "AmountShouldNotBeZero"
                 ELSE IF amount > env_balance[Dao]
                      THEN "AmountShouldNotExceedTheBalance"
                      ELSE "DurationError"
            /\ proposals' = proposals
            /\ next_proposal_id' = next_proposal_id]_vars

\* C6 witness: propose refused an amount above the balance that an earlier
\* execute had left, and stored nothing
C6_Witness ==
    /\ last.op = "propose"
    /\ last.result = "AmountShouldNotExceedTheBalance"
    /\ env_balance[Dao] < 2
    /\ DOMAIN proposals = 1 .. next_proposal_id

\* C7 as stated: after a successful propose(to, amount, d) at time t the
\* proposal under the newly allocated identifier has the given to and
\* amount, vote_start = t, vote_end = t + 60 * d and executed = false, and
\* propose creates no tally and no ballot record.
C7_Original ==
    [][\A to \in Recipients, amount \in Amounts, duration \in Durations :
         (/\ last'.op = "propose" /\ last'.result = "Ok"
          /\ propose(to, amount, duration))
         => /\ next_proposal_id' = next_proposal_id + 1
            /\ proposals'[next_proposal_id'] =
                 [to |-> to, amount |-> amount, vote_start |-> now,
                  vote_end |-> now + 60 * duration, executed |-> FALSE]
            /\ proposal_votes' = proposal_votes
            /\ votes' = votes]_vars

\* C8: the stored proposals are exactly those with identifiers
\* 1 .. next_proposal_id; a successful propose stores at the counter plus
\* one, which held no proposal, and overwrites none; next_proposal_id never
\* decreases and only a successful propose advances it.
C8_SequentialIds ==
    [][/\ DOMAIN proposals = 1 .. next_proposal_id
       /\ DOMAIN proposals' = 1 .. next_proposal_id'
       /\ next_proposal_id' >= next_proposal_id
       /\ IF last'.op = "propose" /\ last'.result = "Ok"
          THEN /\ next_proposal_id' = next_proposal_id + 1
               /\ next_proposal_id' \notin DOMAIN proposals
               /\ \A id \in DOMAIN proposals : proposals'[id] = proposals[id]
          ELSE next_proposal_id' = next_proposal_id]_vars

\* C8 witness: two proposals are stored, under the identifiers 1 and 2, the
\* second one after the first was executed
C8_Witness ==
    /\ next_proposal_id = 2
    /\ DOMAIN proposals = {1, 2}
    /\ proposals[1].executed
    /\ last.op = "propose"
    /\ last.result = "Ok"

RECURSIVE SumPaid(_, _)
\* the sum of the amounts of the transfers in the log that succeeded and
\* whose destination is in the set
SumPaid(log, destinations) ==
    IF log = <<>> THEN 0
    ELSE SumPaid(Tail(log), destinations)
         + (IF Head(log).ok /\ Head(log).to \in destinations
            THEN Head(log).amount ELSE 0)

\* the step is a call that is no execute returning Ok
NotPaying == ~(last'.op = "execute" /\ last'.result = "Ok")

\* C9 as stated: the contract's balance changes only through an execute that
\* returns Ok, which lowers it by exactly the proposal's amount and credits
\* the destination; the balance is the initial balance minus the sum of the
\* amounts of the proposals whose execute returned Ok.
C9_Original ==
    [][/\ NotPaying => env_balance' = env_balance
       /\ \A id \in Ids \cap {last'.id} :
            (/\ last'.op = "execute" /\ last'.id = id /\ last'.result = "Ok"
             /\ execute(id))
            => env_balance'[Dao] = env_balance[Dao] - proposals[id].amount
       /\ env_balance'[Dao] = InitBalance - SumPaid(transfers', Recipients)]_vars

\* C9 amended: the contract's balance changes only through an execute that
\* returns Ok; when the destination is another account the balance falls by
\* exactly the proposal's amount, which is credited to the destination, and
\* when the destination is the contract's own account the balance stays; the
\* balance is the initial balance minus the sum of the amounts of the
\* proposals paid to other accounts whose execute returned Ok.
C9_BalanceFrame ==
    [][/\ NotPaying => env_balance' = env_balance
       /\ \A id \in Ids \cap {last'.id} :
            (/\ last'.op = "execute" /\ last'.id = id /\ last'.result = "Ok"
             /\ execute(id))
            => IF proposals[id].to = Dao
               THEN env_balance' = env_balance
               ELSE /\ env_balance'[Dao] =
                         env_balance[Dao] - proposals[id].amount
                    /\ env_balance'[proposals[id].to] =
                         env_balance[proposals[id].to] + proposals[id].amount
       /\ env_balance'[Dao] =
            InitBalance - SumPaid(transfers', Recipients \ {Dao})]_vars

\* C9 witness: an execute returned Ok and paid the amount to another account
C9_Witness ==
    /\ last.op = "execute"
    /\ last.result = "Ok"
    /\ proposals[last.id].to # Dao
    /\ env_balance[Dao] = InitBalance - proposals[last.id].amount
    /\ env_balance[proposals[last.id].to] = proposals[last.id].amount

\* the transfer of the proposal was invoked and failed
TransferFailedFor(proposal_id) ==
    \E i \in DOMAIN transfers :
        transfers[i].id = proposal_id /\ ~transfers[i].ok

\* C10: an execute that passes the quorum and majority checks while the
\* contract holds less than the amount returns TransferFailed, leaves the
\* executed flag set and moves no funds; from then on the flag stays set,
\* every execute of that proposal returns ProposalAlreadyExecuted and no
\* transfer of it is invoked again.
C10_TransferFailed ==
    [][\A id \in Ids :
         /\ (/\ id \in DOMAIN proposals
             /\ ~proposals[id].executed
             /\ HasTally(id)
             /\ TallySum(TallyOf(id)) >= quorum
             /\ TallyOf(id).for_votes >= TallyOf(id).against_vote
             /\ proposals[id].amount > env_balance[Dao]
             /\ last'.op = "execute" /\ last'.id = id
             /\ execute(id))
            => /\ last' = [op |-> "execute", id |-> id,
                           result |-> "TransferFailed"]
               /\ proposals'[id].executed
               /\ env_balance' = env_balance
         /\ (last'.op = "execute" /\ last'.id = id
             /\ last'.result = "TransferFailed")
            => (proposals'[id].executed /\ env_balance' = env_balance)
         /\ TransferFailedFor(id)
            => /\ proposals[id].executed
               /\ proposals'[id].executed
               /\ (last'.op = "execute" /\ last'.id = id /\ execute(id))
                  => /\ last'.result = "ProposalAlreadyExecuted"
                     /\ env_balance' = env_balance
                     /\ transfers' = transfers]_vars

\* C10 witness: after the transfer of a proposal failed, a later execute of
\* that proposal returned ProposalAlreadyExecuted and the amount is unpaid
C10_Witness ==
    /\ last.op = "execute"
    /\ last.result = "ProposalAlreadyExecuted"
    /\ TransferFailedFor(last.id)
    /\ TransferCount(last.id) = 1
    /\ proposals[last.id].amount > env_balance[Dao]

\* C11: every propose, vote or execute that returns an error other than
\* TransferFailed leaves the proposals, the tallies, the ballot records,
\* next_proposal_id, quorum, governance_token and the balances as they were,
\* and invokes no transfer.
C11_ErrorsChangeNothing ==
    [][(/\ last'.op \in {"propose", "vote", "execute"}
        /\ last'.result \in DaoError \ {"TransferFailed"})
       => /\ UNCHANGED storage
          /\ env_balance' = env_balance
          /\ transfers' = transfers]_vars

\* C11 witness: a vote of an account without a ballot was refused with
\* VotePeriodEnded on a proposal that carries a tally
C11_Witness ==
    /\ last.op = "vote"
    /\ last.result = "VotePeriodEnded"
    /\ HasTally(last.id)
    /\ \E a \in Voters : <<last.id, a>> \notin votes

\* what execute reads as the tally of the proposal, self.proposal_votes.get:
\* the set of the tally for Some, the empty set for None
TallyRead(proposal_id) ==
    IF HasTally(proposal_id) THEN {TallyOf(proposal_id)} ELSE {}

\* C12 as stated: a successful vote on proposal p adds the weight to the
\* tally of p and leaves the tally that execute reads for every other stored
\* proposal q as it was, two proposals made at the same time with equal to,
\* amount and duration included.
C12_Original ==
    [][\A a \in Voters, p \in Ids \cap {last'.id}, v \in VoteType :
         (/\ last'.op = "vote" /\ last'.id = p /\ last'.result = "Ok"
          /\ vote(a, p, v))
         => /\ \E weight \in Weights :
                 TallyRead(p)' =
                   IF HasTally(p) THEN {Added(TallyOf(p), v, weight)}
                   ELSE {Added([against_vote |-> 0, for_votes |-> 0], v, weight)}
            /\ \A q \in DOMAIN proposals \ {p} :
                 TallyRead(q)' = TallyRead(q)]_vars

\* the key vote stores the tally of the proposal under: the record as
\* propose built it
VoteKey(proposal_id) == [proposals[proposal_id] EXCEPT !.executed = FALSE]

\* the tally the votes on the proposal were added to; zero before the first
VotedTally(proposal_id) ==
    IF VoteKey(proposal_id) \in DOMAIN proposal_votes
    THEN proposal_votes[VoteKey(proposal_id)]
    ELSE [against_vote |-> 0, for_votes |-> 0]

\* C13 as stated: for every stored proposal, for_votes and against_vote of
\* its tally never decrease, and they no longer change once the time has
\* passed the proposal's vote_end or once the proposal is executed.
C13_Original ==
    [][\A id \in DOMAIN proposals :
         /\ VotedTally(id)'.for_votes >= VotedTally(id).for_votes
         /\ VotedTally(id)'.against_vote >= VotedTally(id).against_vote
         /\ (now > proposals[id].vote_end \/ proposals[id].executed)
            => VotedTally(id)' = VotedTally(id)]_vars

\* C14 as stated: every stored proposal has vote_end > vote_start and
\* amount > 0, whatever the time and the nonzero duration propose was
\* called with.
C14_Original ==
    \A id \in DOMAIN proposals :
        /\ proposals[id].vote_end > proposals[id].vote_start
        /\ proposals[id].amount > 0

\* C15: a stored proposal is never deleted; its to, amount, vote_start and
\* vote_end never change; executed changes only from false to true, only in
\* an execute of that proposal that passed its checks, and never back;
\* propose and vote leave every stored record as it was.
C15_ProposalFrame ==
    [][/\ DOMAIN proposals \subseteq DOMAIN proposals'
       /\ \A id \in DOMAIN proposals :
            /\ [proposals'[id] EXCEPT !.executed = FALSE] =
                 [proposals[id] EXCEPT !.executed = FALSE]
            /\ proposals[id].executed => proposals'[id].executed
            /\ proposals'[id] # proposals[id]
               => /\ ~proposals[id].executed
                  /\ proposals'[id].executed
                  /\ last'.op = "execute"
                  /\ last'.id = id
                  /\ last'.result \in {"Ok", "TransferFailed"}
            /\ last'.op \in {"propose", "vote"}
               => proposals'[id] = proposals[id]]_vars

\* C15 witness: a second proposal was stored after the first was executed,
\* and the first record still has its fields and its flag
C15_Witness ==
    /\ last.op = "propose"
    /\ last.result = "Ok"
    /\ next_proposal_id = 2
    /\ proposals[1].executed
    /\ proposals[1].amount = 2
    /\ proposals[1].vote_end = proposals[1].vote_start + 60
    /\ TransferCount(1) = 1

\* no two suspended votes are votes of one caller on one proposal: a vote
\* entered while a vote of its caller on its proposal is suspended is not
\* let through to the weight call
OneFramePerBallot ==
    \A i, j \in DOMAIN stack :
        (/\ i < j
         /\ stack[i].op = "vote"
         /\ stack[j].op = "vote"
         /\ stack[i].id = stack[j].id)
        => stack[i].caller # stack[j].caller

RECURSIVE ReportedUnder(_, _)
\* the weights the oracle answered to the votes on the proposals 1 .. n
\* whose tally is stored under the key, summed by side
ReportedUnder(key, n) ==
    IF n = 0 THEN [against_vote |-> 0, for_votes |-> 0]
    ELSE LET rest == ReportedUnder(key, n - 1)
         IN  IF VoteKey(n) = key
             THEN [against_vote |-> rest.against_vote + reported[n].against_vote,
                   for_votes |-> rest.for_votes + reported[n].for_votes]
             ELSE rest

\* every stored tally is the sum of the weights answered to the votes whose
\* ballot is recorded and whose weight call has returned
TalliesAreReported ==
    \A key \in DOMAIN proposal_votes :
        proposal_votes[key] = ReportedUnder(key, next_proposal_id)

\* the tallies change only when the vote on top of the stack resumes, which
\* adds one weight on the side of its vote to the tally as it is then
TallyStep ==
    proposal_votes' # proposal_votes
    => /\ stack # <<>>
       /\ stack[Len(stack)].op = "vote"
       /\ stack' = SubSeq(stack, 1, Len(stack) - 1)
       /\ LET frame == stack[Len(stack)]
              old == IF frame.proposal \in DOMAIN proposal_votes
                     THEN proposal_votes[frame.proposal]
                     ELSE [against_vote |-> 0, for_votes |-> 0]
          IN  \E weight \in Weights :
                 proposal_votes' = Insert(proposal_votes, frame.proposal,
                                          Added(old, frame.vote, weight))

\* a vote frame is pushed only together with its ballot, which was not
\* recorded before, and ballots are never removed
BallotStep ==
    /\ votes \subseteq votes'
    /\ (Len(stack') > Len(stack) /\ stack'[Len(stack')].op = "vote")
       => LET frame == stack'[Len(stack')]
          IN  /\ <<frame.id, frame.caller>> \notin votes
              /\ votes' = votes \cup {<<frame.id, frame.caller>>}

\* the tallies and ballots change only in steps that push or pop a frame,
\* and then as BallotStep and TallyStep say
VoteSteps ==
    /\ stack' = stack => (votes' = votes /\ proposal_votes' = proposal_votes)
    /\ stack' # stack => (BallotStep /\ TallyStep)

\* C16 as stated: the ballot is recorded before the weight call, so a vote
\* of the same caller on the same proposal that is entered while the first
\* is suspended at the call returns AlreadyVoted, the weight is added to
\* the tally exactly once, and the weights of votes of other accounts that
\* interleave at the call are not lost.
C16_Original ==
    /\ [](OneFramePerBallot /\ TalliesAreReported)
    /\ [][/\ (last'.op = "vote" /\ stack' = stack)
             => \A i \in DOMAIN stack :
                  (/\ stack[i].op = "vote"
                   /\ stack[i].id = last'.id
                   /\ \E v \in VoteType :
                        vote_enter(stack[i].caller, stack[i].id, v))
                  => last'.result = "AlreadyVoted"
          /\ VoteSteps]_vars

\* C16 amended: a vote of the same caller on the same proposal that is
\* entered while the first is suspended at the weight call returns an error
\* and changes nothing: AlreadyVoted, or ProposalAlreadyExecuted when an
\* execute entered in between has set the flag; no second vote of a caller
\* on a proposal reaches the weight call, every stored tally is the sum of
\* the weights answered to the votes that have returned, so each weight is
\* added exactly once and the weights of interleaving votes are not lost.
C16_BallotFirst ==
    /\ [](OneFramePerBallot /\ TalliesAreReported)
    /\ [][/\ (last'.op = "vote" /\ stack' = stack)
             => \A i \in DOMAIN stack :
                  (/\ stack[i].op = "vote"
                   /\ stack[i].id = last'.id
                   /\ \E v \in VoteType :
                        vote_enter(stack[i].caller, stack[i].id, v))
                  => last'.result = IF proposals[stack[i].id].executed
                                    THEN "ProposalAlreadyExecuted"
                                    ELSE "AlreadyVoted"
          /\ VoteSteps]_vars

\* C16 witness: while a vote is suspended at its weight call, a vote of the
\* same caller on the same proposal was refused with AlreadyVoted, and a
\* vote of another account on that proposal has added its weight
C16_Witness ==
    /\ stack # <<>>
    /\ stack[1].op = "vote"
    /\ last = [op |-> "vote", id |-> stack[1].id, result |-> "AlreadyVoted"]
    /\ reported[stack[1].id].for_votes + reported[stack[1].id].against_vote > 0
    /\ proposal_votes[stack[1].proposal] = reported[stack[1].id]

\* the proposal is stored and not executed, the time is past its vote_end,
\* and it has no tally or one below quorum
PastWithoutQuorum(proposal_id) ==
    /\ proposal_id \in DOMAIN proposals
    /\ ~proposals[proposal_id].executed
    /\ now > proposals[proposal_id].vote_end
    /\ (~HasTally(proposal_id) \/ TallySum(TallyOf(proposal_id)) < quorum)

\* C17: once the time is past a proposal's vote_end and its tally is absent
\* or below quorum, this stays so under every propose, vote, execute and
\* later block: the tally execute reads no longer changes, every execute of
\* the proposal returns QuorumNotReached and executed stays false.
C17_NeverExecutable ==
    [][\A id \in Ids :
         PastWithoutQuorum(id)
         => /\ PastWithoutQuorum(id)'
            /\ TallyRead(id)' = TallyRead(id)
            /\ (last'.op = "execute" /\ last'.id = id /\ execute(id))
               => last'.result = "QuorumNotReached"]_vars

\* C17 witness: after the window of a proposal closed with one ballot and a
\* tally below quorum, its execute returned QuorumNotReached
C17_Witness ==
    /\ last.op = "execute"
    /\ last.result = "QuorumNotReached"
    /\ PastWithoutQuorum(last.id)
    /\ HasTally(last.id)
    /\ TallySum(TallyOf(last.id)) > 0
    /\ Cardinality({a \in Voters : <<last.id, a>> \in votes}) = 1

\* the sum of the recorded balances
SumBalances == balances["alice"] + balances["bob"]

\* C18 as stated: after any sequence of transfer_to calls on a token made
\* with total_supply > 0, circulating_supply is below total_supply and is
\* the sum of the balances, so every weight the token answers is in 0 .. 100;
\* a transfer_to whose amount would make circulating_supply reach or exceed
\* total_supply changes nothing.
C18_Original ==
    [][/\ circulating_supply' < total_supply'
       /\ circulating_supply' = SumBalances'
       /\ \A account \in Voters :
            (/\ last'.op = "weight" /\ last'.result = "Ok"
             /\ token_weight(account))
            => weight_value(account) \in 0 .. 100
       /\ \A recipient \in Voters, amount \in TokenAmounts :
            (/\ amount + circulating_supply >= total_supply
             /\ last'.op = "transfer_to"
             /\ transfer_to(recipient, amount))
            => UNCHANGED token]_vars

\* C19 as stated: whenever execute of proposal p passes the quorum and the
\* majority check (it returns Ok or TransferFailed), the weights the oracle
\* answered to the accounts with a ballot for p itself add up to at least
\* quorum, with the for-weight at least the against-weight; the tally
\* execute reads holds no weight of a vote on another proposal, and a vote
\* adds a weight only for an account that had no ballot for p.
C19_Original ==
    [][/\ \A id \in Ids \cap {last'.id} :
            (/\ last'.op = "execute" /\ last'.id = id
             /\ last'.result \in {"Ok", "TransferFailed"}
             /\ execute(id))
            => /\ TallySum(reported[id]) >= quorum
               /\ reported[id].for_votes >= reported[id].against_vote
               /\ TallyRead(id) = {reported[id]}
       /\ \A a \in Voters, p \in Ids \cap {last'.id}, v \in VoteType :
            (/\ last'.op = "vote" /\ last'.id = p /\ last'.result = "Ok"
             /\ vote(a, p, v))
            => <<p, a>> \notin votes]_vars

\* C20: execute does not look at the time: an unexecuted proposal whose
\* tally meets quorum with for_votes >= against_vote is executed by execute
\* while its voting window is open (time <= vote_end), and every vote on an
\* executed proposal returns ProposalAlreadyExecuted and changes no tally
\* and no ballot, inside the window as after it.
C20_ExecuteIgnoresTime ==
    [][\A id \in Ids \cap {last'.id} :
         /\ (/\ id \in DOMAIN proposals
             /\ ~proposals[id].executed
             /\ HasTally(id)
             /\ TallySum(TallyOf(id)) >= quorum
             /\ TallyOf(id).for_votes >= TallyOf(id).against_vote
             /\ now <= proposals[id].vote_end
             /\ last'.op = "execute" /\ last'.id = id
             /\ execute(id))
            => /\ proposals'[id].executed
               /\ last'.result \in {"Ok", "TransferFailed"}
               /\ TransferCount(id)' = 1
         /\ \A a \in Voters, v \in VoteType :
              (/\ id \in DOMAIN proposals
               /\ proposals[id].executed
               /\ last'.op = "vote" /\ last'.id = id
               /\ vote(a, id, v))
              => /\ last'.result = "ProposalAlreadyExecuted"
                 /\ UNCHANGED <<proposals, proposal_votes, votes>>]_vars

\* C20 witness: a proposal was executed and paid while its voting window
\* was open, and a vote made on it inside the window was refused with
\* ProposalAlreadyExecuted
C20_Witness ==
    /\ last.op = "vote"
    /\ last.result = "ProposalAlreadyExecuted"
    /\ proposals[last.id].executed
    /\ now <= proposals[last.id].vote_end
    /\ TransferCount(last.id) = 1

====
